---- MODULE Spec2Model ----
(***************************************************************************)
(* NPIV volume adapter of nova-powervm (virt/powervm/volume/npiv.py).      *)
(*                                                                         *)
(* The adapter keeps, per fabric, a fabric state and a port map in the     *)
(* instance's system_metadata, and drives the hypervisor management layer  *)
(* (pypowervm) through build_wwpn_pair, derive_npiv_map,                   *)
(* add_npiv_port_mappings and remove_npiv_port_mappings.                   *)
(*                                                                         *)
(* Python strings that the code splits and joins are sequences of one      *)
(* character strings; dictionary keys and the fabric states are TLA+       *)
(* strings.  An Optional value is a sequence of length 0 (None) or 1.      *)
(* Every call into the management layer is one step that either succeeds   *)
(* or raises; a call that raises changes nothing in the management layer.  *)
(***************************************************************************)
EXTENDS Integers, Sequences, FiniteSets, TLC

\* ------------------------------------------------------------------ bounds
\* The number of configured fabrics ranges over 1..MaxFabrics.
MaxFabrics == 2
\* CONF.powervm.ports_per_fabric ranges over 0..MaxPortsPerFabric.
MaxPortsPerFabric == 2
\* The number of virtual ports of a VM: fabrics times ports_per_fabric.
MaxPorts == 4
\* The number of driver calls (wwpns, connect_volume, disconnect_volume) per run.
MaxOps == 4
\* The number of management-layer calls that raise per run.
MaxFailures == 1
\* Codec specification: number of port mappings and of raw tokens.
MaxMappings == 2
MaxTokens == 4

\* --------------------------------------------------------------- constants
WWPN_SYSTEM_METADATA_KEY == "npiv_adpt_wwpns"
FABRIC_STATE_METADATA_KEY == "fabric_state"
FS_UNMAPPED == "unmapped"
FS_MGMT_MAPPED == "mgmt_mapped"
FS_INST_MAPPED == "inst_mapped"
TASK_STATES_FOR_DISCONNECT == {"deleting", "spawning"}

\* task_states of nova an instance may be in when disconnect_volume is called:
\* the two of TASK_STATES_FOR_DISCONNECT and one that is not among them
TaskStates == {"deleting", "spawning", "resizing"}

\* ------------------------------------------------------- Python primitives
None == <<>>
Some(v) == <<v>>
IsNone(o) == Len(o) = 0
Value(o) == o[1]

Range(s) == {s[k] : k \in 1..Len(s)}

RECURSIVE Flatten(_)
Flatten(ss) ==
    IF Len(ss) = 0 THEN <<>> ELSE Head(ss) \o Flatten(Tail(ss))

\* dict[key] = value
Put(d, key, value) ==
    [x \in (DOMAIN d) \cup {key} |-> IF x = key THEN value ELSE d[x]]

\* str.split(sep): the tokens between occurrences of sep; "" gives [""]
RECURSIVE SplitFrom(_, _, _, _, _)
SplitFrom(s, sep, k, cur, acc) ==
    IF k > Len(s) THEN Append(acc, cur)
    ELSE IF s[k] = sep THEN SplitFrom(s, sep, k + 1, <<>>, Append(acc, cur))
    ELSE SplitFrom(s, sep, k + 1, Append(cur, s[k]), acc)

split(s, sep) == SplitFrom(s, sep, 1, <<>>, <<>>)

\* str.split(): splits on runs of whitespace and drops empty tokens
split_ws(s) == SelectSeq(split(s, " "), LAMBDA t : Len(t) > 0)

\* sep.join(elems)
RECURSIVE join(_, _)
join(sep, elems) ==
    IF Len(elems) = 0 THEN <<>>
    ELSE IF Len(elems) = 1 THEN elems[1]
    ELSE elems[1] \o <<sep>> \o join(sep, Tail(elems))

\* every slice taken from the first element
Slice3_first(s, start) ==
    [k \in 1..((Len(s) - start + 3) \div 3) |-> s[1 + 3 * (k - 1)]]

\* seq[start::3] with a 1-based start in 1..3
Slice3(s, start) ==
    [k \in 1..((Len(s) - start + 3) \div 3) |-> s[start + 3 * (k - 1)]]

Min(a, b) == IF a < b THEN a ELSE b

\* zip(a, b, c): stops at the shortest
zip3(a, b, c) ==
    [k \in 1..Min(Len(a), Min(Len(b), Len(c))) |-> <<a[k], b[k], c[k]>>]

\* ---------------------------------------------------------- configuration
Hex == <<"0", "1", "2", "3", "4", "5", "6", "7",
         "8", "9", "a", "b", "c", "d", "e", "f">>
FabricNames == <<"A", "B", "C", "D">>
FabricDigit == <<"a", "b", "8", "9">>
VirtualHigh == <<"c", "d", "e", "f", "0", "1", "2", "3", "4", "5", "6", "7">>

\* the virtual I/O servers of the host, in the order adapter.read returns them
VIOS_WRAPS == <<"V1", "V2">>
VioDigit(v) == IF v = "V1" THEN "1" ELSE "2"

\* the physical port of fabric number f that virtual I/O server v owns
PhysicalPort(f, v) == <<FabricDigit[f], VioDigit(v)>>

\* the n-th WWPN the management layer hands out (n = 0, 1, ...)
VirtualWwpn(n) == <<VirtualHigh[(n \div 16) + 1], Hex[(n % 16) + 1]>>

VARIABLES
    NPIV_FABRIC_WWPNS,  \* powervm.NPIV_FABRIC_WWPNS: <<fabric name, ports>>, in key order
    ports_per_fabric,   \* CONF.powervm.ports_per_fabric
    instance,           \* the nova instance: system_metadata, task_state
    vfc_mappings,       \* management layer: the set of <<lpar, port mapping>> on the VIOSes
    wwpn_seed,          \* management layer: number of WWPN pairs built so far
    op,                 \* the driver call running, or the last one that ran
    pc,                 \* "idle" between calls, else the next step of the call
    frame,              \* the local variables of the running call
    status,             \* "none", "running", "returned" or "raised"
    ret,                \* the value the last call returned
    calls,              \* the management-layer calls of the current (last) call
    instance0,          \* the instance when the current (last) call began
    vfc0,               \* vfc_mappings when the current (last) call began
    prev,               \* op, status, ret and calls of the call before, and whether
                        \* a teardown removed the mappings in an earlier call
    nops,               \* number of calls begun
    failures,           \* number of management-layer calls that raised
    codec_in,           \* the input of a specification of one function on its own
    vol_grp,            \* media: the virtual media repositories of the volume group,
                        \* each the list of the names of its optical media
    files,              \* media: the names of the files on the virtual I/O server
    iterator,           \* IterableToFileAdapter: the chunks the iterator has yet to give
    remaining_data      \* IterableToFileAdapter: self.remaining_data

vars == <<NPIV_FABRIC_WWPNS, ports_per_fabric, instance, vfc_mappings, wwpn_seed,
          op, pc, frame, status, ret, calls, instance0, vfc0, prev, nops, failures,
          codec_in, vol_grp, files, iterator, remaining_data>>

conf == <<NPIV_FABRIC_WWPNS, ports_per_fabric>>

\* what the NPIV volume adapter never touches: the media repositories, the files
\* and the image stream
side == <<vol_grp, files, iterator, remaining_data>>

\* no media repository, no file, no stream
SideInit ==
    /\ vol_grp = <<>>
    /\ files = {}
    /\ iterator = <<>>
    /\ remaining_data = <<>>

MGMT_UUID == "mgmt"
VM_UUID == "vm"

\* ------------------------------------------------------ fabric state store
_fabric_names == [k \in 1..Len(NPIV_FABRIC_WWPNS) |-> NPIV_FABRIC_WWPNS[k][1]]

_fabric_ports(fabric_name) ==
    LET k == CHOOSE n \in 1..Len(NPIV_FABRIC_WWPNS) : NPIV_FABRIC_WWPNS[n][1] = fabric_name
    IN  NPIV_FABRIC_WWPNS[k][2]

_ports_per_fabric == ports_per_fabric

_sys_fabric_state_key(fabric) == FABRIC_STATE_METADATA_KEY \o "_" \o fabric

_sys_meta_fabric_key(fabric) == WWPN_SYSTEM_METADATA_KEY \o "_" \o fabric

\* a write that records FS_INST_MAPPED whatever state it is given
_set_fabric_state_inst(inst, fabric, state) ==
    [inst EXCEPT !.system_metadata =
        Put(inst.system_metadata, _sys_fabric_state_key(fabric), FS_INST_MAPPED)]

\* instance.system_metadata[meta_key] = state
_set_fabric_state(inst, fabric, state) ==
    [inst EXCEPT !.system_metadata =
        Put(inst.system_metadata, _sys_fabric_state_key(fabric), state)]

\* a read that initialises a missing state to FS_MGMT_MAPPED
_get_fabric_state_instance_mgmt(inst, fabric) ==
    IF _sys_fabric_state_key(fabric) \notin DOMAIN inst.system_metadata
    THEN _set_fabric_state(inst, fabric, FS_MGMT_MAPPED)
    ELSE inst

\* _get_fabric_state writes FS_UNMAPPED when no state is stored: the instance after it
_get_fabric_state_instance(inst, fabric) ==
    IF _sys_fabric_state_key(fabric) \notin DOMAIN inst.system_metadata
    THEN _set_fabric_state(inst, fabric, FS_UNMAPPED)
    ELSE inst

\* ... and the value it returns
_get_fabric_state(inst, fabric) ==
    _get_fabric_state_instance(inst, fabric).system_metadata[_sys_fabric_state_key(fabric)]

\* the elements without the physical WWPN of each mapping
RECURSIVE meta_elems_virtual(_)
meta_elems_virtual(port_map) ==
    IF Len(port_map) = 0 THEN <<>>
    ELSE split_ws(port_map[1][2]) \o meta_elems_virtual(Tail(port_map))

\* the comma separated string of a port map: p_wwpn, v_wwpn, v_wwpn per mapping
RECURSIVE meta_elems(_)
meta_elems(port_map) ==
    IF Len(port_map) = 0 THEN <<>>
    ELSE <<port_map[1][1]>> \o split_ws(port_map[1][2]) \o meta_elems(Tail(port_map))

\* _set_fabric_meta that keeps a port map already stored
_set_fabric_meta_keep(inst, fabric, port_map) ==
    IF _sys_meta_fabric_key(fabric) \in DOMAIN inst.system_metadata THEN inst
    ELSE [inst EXCEPT !.system_metadata =
             Put(inst.system_metadata, _sys_meta_fabric_key(fabric),
                 join(",", meta_elems(port_map)))]

_set_fabric_meta(inst, fabric, port_map) ==
    LET meta_value == join(",", meta_elems(port_map))
        meta_key == _sys_meta_fabric_key(fabric)
    IN  [inst EXCEPT !.system_metadata = Put(inst.system_metadata, meta_key, meta_value)]

_get_fabric_meta(inst, fabric) ==
    LET meta_key == _sys_meta_fabric_key(fabric)
    IN  IF meta_key \notin DOMAIN inst.system_metadata THEN None
        ELSE LET meta_value == inst.system_metadata[meta_key]
                 wwpns == split(meta_value, ",")
                 z == zip3(Slice3(wwpns, 1), Slice3(wwpns, 2), Slice3(wwpns, 3))
             IN  Some([k \in 1..Len(z) |-> <<z[k][1], join(" ", <<z[k][2], z[k][3]>>)>>])


\* ------------------------------------------------------- management layer
\* pvm_wwpn.build_wwpn_pair: a pair of WWPNs never handed out before
build_wwpn_pair(seed) == <<VirtualWwpn(2 * seed), VirtualWwpn(2 * seed + 1)>>

\* the virtual I/O server that owns a physical port
PortOwner(p_wwpn) == IF p_wwpn[2] = "1" THEN "V1" ELSE "V2"

\* pvm_wwpn.derive_npiv_map: one (p_wwpn, "v_wwpn v_wwpn") per pair of virtual
\* WWPNs, in their order; the k-th pair goes to the fabric port of the k-th virtual
\* I/O server of vios_wraps, round robin
derive_npiv_map(vios_wraps, p_port_wwpns, v_port_wwpns) ==
    [k \in 1..(Len(v_port_wwpns) \div 2) |->
        LET vios == vios_wraps[((k - 1) % Len(vios_wraps)) + 1]
            p_wwpn == CHOOSE p \in Range(p_port_wwpns) : PortOwner(p) = vios
        IN  <<p_wwpn, join(" ", <<v_port_wwpns[2 * k - 1], v_port_wwpns[2 * k]>>)>>]

\* pvm_wwpn.add_npiv_port_mappings: mappings already there are left as they are
add_npiv_port_mappings(mappings, lpar_uuid, npiv_port_maps) ==
    mappings \cup {<<lpar_uuid, m>> : m \in Range(npiv_port_maps)}

\* pvm_wwpn.remove_npiv_port_mappings: takes no lpar; mappings not there are ignored
remove_npiv_port_mappings(mappings, npiv_port_maps) ==
    {e \in mappings : e[2] \notin Range(npiv_port_maps)}

\* one entry of the log of management-layer calls
Call(fn, fabric, lpar, maps, vios, ok) ==
    [fn |-> fn, fabric |-> fabric, lpar |-> lpar, maps |-> maps, vios |-> vios, ok |-> ok]

\* a reversal that leaves the list as it is
Reverse_same(s) == s

\* list.reverse()
Reverse(s) == [k \in 1..Len(s) |-> s[Len(s) + 1 - k]]

\* ----------------------------------------------------------- call frames
EmptyFrame ==
    [fabric_idx |-> 0, i |-> 0, vios_wraps |-> <<>>, v_port_wwpns |-> <<>>,
     resp_wwpns |-> <<>>, port_map |-> <<>>, npiv_port_mappings |-> None]

\* the host framework calls into the driver
Begin(name, inst) ==
    /\ pc = "idle"
    /\ nops < MaxOps
    /\ op' = name
    /\ prev' = [op |-> op, status |-> status, ret |-> ret, calls |-> calls,
                torn |-> \/ prev.torn
                         \/ /\ op = "disconnect_volume"
                            /\ \E k \in 1..Len(calls) :
                                  calls[k].fn = "remove_npiv_port_mappings" /\ calls[k].ok]
    /\ instance0' = inst
    /\ vfc0' = vfc_mappings
    /\ nops' = nops + 1
    /\ UNCHANGED <<conf, codec_in, failures, side>>

\* inside a call
Step(label) ==
    /\ pc = label
    /\ UNCHANGED <<conf, codec_in, op, prev, instance0, vfc0, nops, side>>

\* what a management-layer call may do: return (TRUE) or raise (FALSE)
Outcomes == IF failures < MaxFailures THEN BOOLEAN ELSE {TRUE}

\* the management-layer call returned, or raised
Outcome(ok) == failures' = IF ok THEN failures ELSE failures + 1

\* the call returns value
Return(value) ==
    /\ pc' = "idle"
    /\ status' = "returned"
    /\ ret' = value
    /\ frame' = EmptyFrame

\* an exception that is swallowed: the call returns None
Raise_swallowed ==
    /\ pc' = "idle"
    /\ status' = "returned"
    /\ ret' = None
    /\ frame' = EmptyFrame

\* the call ends with an exception
Raise ==
    /\ pc' = "idle"
    /\ status' = "raised"
    /\ ret' = None
    /\ frame' = EmptyFrame

\* -------------------------------------------------------------- wwpns()
\* lines 155-165: Some(wwpn_keys), or None when a fabric has no port map (bad_fabric)
RECURSIVE wwpn_keys_of(_, _, _)
wwpn_keys_of(inst, names, wwpn_keys) ==
    IF Len(names) = 0 THEN Some(wwpn_keys)
    ELSE LET metas == _get_fabric_meta(inst, Head(names))
         IN  IF IsNone(metas) THEN None
             ELSE wwpn_keys_of(inst, Tail(names),
                      wwpn_keys \o Flatten([k \in 1..Len(Value(metas)) |->
                                               split(Value(metas)[k][2], " ")]))

\* wwpns that never takes the fast path
not_bad_fabric_never(inst, names) == FALSE

\* the fast path of wwpns is taken
not_bad_fabric(inst, names) == ~IsNone(wwpn_keys_of(inst, names, <<>>))

\* the loop with <= for <
build_loop_continues_le(i) == i <= _ports_per_fabric

\* a loop that asks twice for every port
build_loop_continues_twice(i) == i < 2 * _ports_per_fabric

\* line 370: while i < self._ports_per_fabric()
build_loop_continues(i) == i < _ports_per_fabric

\* parking whatever the state
needs_parking_always(fc_state) == TRUE

\* parking of every fabric that is not parked
needs_parking_not_mgmt(fc_state) == fc_state # FS_MGMT_MAPPED

\* line 230: the fabric is parked on the management partition if it is unmapped
needs_parking(fc_state) == fc_state = FS_UNMAPPED

\* the loop of lines 182-203 moves to fabric number idx, or wwpns returns
wwpns_fabric(idx, vios_wraps, resp_wwpns) ==
    IF idx > Len(_fabric_names)
    THEN Return(resp_wwpns)
    ELSE /\ pc' = IF build_loop_continues(0) THEN "w_build" ELSE "w_derive"
         /\ status' = "running"
         /\ ret' = None
         /\ frame' = [EmptyFrame EXCEPT !.fabric_idx = idx, !.vios_wraps = vios_wraps,
                                        !.resp_wwpns = resp_wwpns]

\* lines 144-170: the call, the check of every fabric's port map, the fast path
wwpns ==
    /\ Begin("wwpns", instance)
    /\ calls' = <<>>
    /\ UNCHANGED <<instance, vfc_mappings, wwpn_seed>>
    /\ IF not_bad_fabric(instance, _fabric_names)
       THEN Return(Value(wwpn_keys_of(instance, _fabric_names, <<>>)))
       ELSE /\ pc' = "w_read"
            /\ status' = "running"
            /\ ret' = None
            /\ frame' = EmptyFrame

\* lines 177-181: adapter.read of the virtual I/O servers
wwpns_read ==
    /\ Step("w_read")
    /\ UNCHANGED <<instance, vfc_mappings, wwpn_seed>>
    /\ \E ok \in Outcomes :
          /\ Outcome(ok)
          /\ calls' = Append(calls, Call("read", "", "", <<>>, <<>>, ok))
          /\ IF ok THEN wwpns_fabric(1, VIOS_WRAPS, <<>>) ELSE Raise

\* lines 366-373, one turn of the loop: one build_wwpn_pair request;
\* after the last one, line 184
_build_wwpns_for_fabric ==
    /\ Step("w_build")
    /\ UNCHANGED <<instance, vfc_mappings>>
    /\ \E ok \in Outcomes :
          /\ Outcome(ok)
          /\ calls' = Append(calls, Call("build_wwpn_pair",
                                         _fabric_names[frame.fabric_idx], "", <<>>, <<>>, ok))
          /\ IF ok
             THEN LET wwpns_ == frame.v_port_wwpns \o build_wwpn_pair(wwpn_seed)
                      more == build_loop_continues(frame.i + 1)
                  IN  /\ wwpn_seed' = wwpn_seed + 1
                      /\ pc' = IF more THEN "w_build" ELSE "w_derive"
                      /\ frame' = [frame EXCEPT
                                     !.i = frame.i + 1,
                                     !.v_port_wwpns = wwpns_,
                                     !.resp_wwpns = IF more THEN @ ELSE @ \o wwpns_]
                      /\ UNCHANGED <<status, ret>>
             ELSE /\ Raise
                  /\ UNCHANGED wwpn_seed

\* lines 187-198 and 226-230: derive_npiv_map, _set_fabric_meta, the reversal of
\* vios_wraps, and the fabric state read by _add_npiv_mgmt_mappings
wwpns_derive ==
    /\ Step("w_derive")
    /\ UNCHANGED <<vfc_mappings, wwpn_seed>>
    /\ LET fabric == _fabric_names[frame.fabric_idx]
       IN  \E ok \in Outcomes :
              /\ Outcome(ok)
              /\ IF ok
                 THEN LET port_map == derive_npiv_map(frame.vios_wraps, _fabric_ports(fabric),
                                                      frame.v_port_wwpns)
                          inst1 == _set_fabric_meta(instance, fabric, port_map)
                          vios_wraps == Reverse(frame.vios_wraps)
                          fc_state == _get_fabric_state(inst1, fabric)
                      IN  /\ calls' = Append(calls, Call("derive_npiv_map", fabric, "", port_map,
                                                         frame.vios_wraps, TRUE))
                          /\ instance' = _get_fabric_state_instance(inst1, fabric)
                          /\ IF needs_parking(fc_state)
                             THEN /\ pc' = "w_add_mgmt"
                                  /\ frame' = [frame EXCEPT !.port_map = port_map,
                                                            !.vios_wraps = vios_wraps]
                                  /\ UNCHANGED <<status, ret>>
                             ELSE wwpns_fabric(frame.fabric_idx + 1, vios_wraps, frame.resp_wwpns)
                 ELSE /\ calls' = Append(calls, Call("derive_npiv_map", fabric, "", <<>>,
                                                     frame.vios_wraps, FALSE))
                      /\ Raise
                      /\ UNCHANGED instance

\* lines 233-238: get_mgmt_partition, add_npiv_port_mappings to the management
\* partition, then the state FS_MGMT_MAPPED
_add_npiv_mgmt_mappings ==
    /\ Step("w_add_mgmt")
    /\ UNCHANGED wwpn_seed
    /\ LET fabric == _fabric_names[frame.fabric_idx]
       IN  \E outcome \in {"ok"} \cup (IF FALSE \in Outcomes
                                        THEN {"get_mgmt_partition raises", "add raises"}
                                        ELSE {}) :
              /\ Outcome(outcome = "ok")
              /\ calls' = IF outcome = "get_mgmt_partition raises"
                          THEN Append(calls, Call("get_mgmt_partition", fabric, "", <<>>,
                                                  <<>>, FALSE))
                          ELSE Append(calls, Call("add_npiv_port_mappings", fabric, MGMT_UUID,
                                                  frame.port_map, <<>>, outcome = "ok"))
              /\ IF outcome = "ok"
                 THEN /\ vfc_mappings' = add_npiv_port_mappings(vfc_mappings, MGMT_UUID,
                                                                frame.port_map)
                      /\ instance' = _set_fabric_state(instance, fabric, FS_MGMT_MAPPED)
                      /\ wwpns_fabric(frame.fabric_idx + 1, frame.vios_wraps, frame.resp_wwpns)
                 ELSE /\ Raise
                      /\ UNCHANGED <<instance, vfc_mappings>>

\* ------------------------------------------------------- connect_volume()
\* no un-parking at all
needs_unparking_never(fc_state) == FALSE

\* un-parking of every fabric that is not unmapped
needs_unparking_mapped(fc_state) == fc_state # FS_UNMAPPED

\* un-parking guarded by the wrong state
needs_unparking_unmapped(fc_state) == fc_state = FS_UNMAPPED

\* line 260: the fabric leaves the management partition if it is parked there
needs_unparking(fc_state) == fc_state = FS_MGMT_MAPPED

\* lines 82-85 and 260: the loop moves to fabric number idx, reads its port map
\* and its state, or connect_volume returns
connect_fabric(inst, idx) ==
    IF idx > Len(_fabric_names)
    THEN /\ Return(None)
         /\ instance' = inst
    ELSE LET fabric == _fabric_names[idx]
         IN  /\ instance' = _get_fabric_state_instance(inst, fabric)
             /\ pc' = IF needs_unparking(_get_fabric_state(inst, fabric))
                      THEN "c_remove" ELSE "c_add"
             /\ status' = "running"
             /\ ret' = None
             /\ frame' = [EmptyFrame EXCEPT !.fabric_idx = idx,
                             !.npiv_port_mappings = _get_fabric_meta(inst, fabric)]

connect_volume ==
    /\ Begin("connect_volume", instance)
    /\ calls' = <<>>
    /\ UNCHANGED <<vfc_mappings, wwpn_seed>>
    /\ connect_fabric(instance, 1)

\* lines 261-265: the port map leaves the management partition, state FS_UNMAPPED
_remove_npiv_mgmt_mappings ==
    /\ Step("c_remove")
    /\ UNCHANGED wwpn_seed
    /\ LET fabric == _fabric_names[frame.fabric_idx]
           given == ~IsNone(frame.npiv_port_mappings)
       IN  \E ok \in (IF given THEN Outcomes ELSE {FALSE}) :
              /\ Outcome(ok \/ ~given)
              /\ calls' = Append(calls, Call("remove_npiv_port_mappings", fabric, "",
                                             IF given THEN Value(frame.npiv_port_mappings)
                                             ELSE <<>>, <<>>, ok))
              /\ IF ok
                 THEN /\ vfc_mappings' = remove_npiv_port_mappings(vfc_mappings,
                                             Value(frame.npiv_port_mappings))
                      /\ instance' = _set_fabric_state(instance, fabric, FS_UNMAPPED)
                      /\ pc' = "c_add"
                      /\ UNCHANGED <<frame, status, ret>>
                 ELSE /\ Raise
                      /\ UNCHANGED <<instance, vfc_mappings>>

\* lines 89-93: add_npiv_port_mappings to the VM, then the state FS_INST_MAPPED;
\* with no port map stored the management layer is handed None and raises
connect_add ==
    /\ Step("c_add")
    /\ UNCHANGED wwpn_seed
    /\ LET fabric == _fabric_names[frame.fabric_idx]
           given == ~IsNone(frame.npiv_port_mappings)
       IN  \E ok \in (IF given THEN Outcomes ELSE {FALSE}) :
              /\ Outcome(ok \/ ~given)
              /\ calls' = Append(calls, Call("add_npiv_port_mappings", fabric, VM_UUID,
                                             IF given THEN Value(frame.npiv_port_mappings)
                                             ELSE <<>>, <<>>, ok))
              /\ IF ok
                 THEN /\ vfc_mappings' = add_npiv_port_mappings(vfc_mappings, VM_UUID,
                                             Value(frame.npiv_port_mappings))
                      /\ connect_fabric(_set_fabric_state(instance, fabric, FS_INST_MAPPED),
                                        frame.fabric_idx + 1)
                 ELSE /\ Raise
                      /\ UNCHANGED <<instance, vfc_mappings>>

\* ---------------------------------------------------- disconnect_volume()
\* lines 133-135: Some(the port maps of all fabrics, one after the other), or None
\* when a fabric has no port map (list.extend(None) raises TypeError)
RECURSIVE gather_port_mappings(_, _, _)
gather_port_mappings(inst, names, npiv_port_mappings) ==
    IF Len(names) = 0 THEN Some(npiv_port_mappings)
    ELSE LET metas == _get_fabric_meta(inst, Head(names))
         IN  IF IsNone(metas) THEN None
             ELSE gather_port_mappings(inst, Tail(names), npiv_port_mappings \o Value(metas))

\* line 128
is_teardown(task_state) == task_state \in TASK_STATES_FOR_DISCONNECT

\* lines 128-135: the gate on the task state, then the port maps are gathered
disconnect_volume ==
    \E task_state \in TaskStates :
        LET inst == [instance EXCEPT !.task_state = task_state]
            maps == gather_port_mappings(inst, _fabric_names, <<>>)
        IN  /\ Begin("disconnect_volume", inst)
            /\ instance' = inst
            /\ calls' = <<>>
            /\ UNCHANGED <<vfc_mappings, wwpn_seed>>
            /\ IF ~is_teardown(task_state) THEN Return(None)
               ELSE IF IsNone(maps) THEN Raise
               ELSE /\ pc' = "d_remove"
                    /\ status' = "running"
                    /\ ret' = None
                    /\ frame' = [EmptyFrame EXCEPT !.npiv_port_mappings = maps]

\* a removal that resets every stored fabric state to FS_UNMAPPED afterwards
disconnect_remove_reset ==
    /\ Step("d_remove")
    /\ UNCHANGED wwpn_seed
    /\ \E ok \in Outcomes :
          /\ Outcome(ok)
          /\ calls' = Append(calls, Call("remove_npiv_port_mappings", "", "",
                                         Value(frame.npiv_port_mappings), <<>>, ok))
          /\ IF ok
             THEN /\ vfc_mappings' = remove_npiv_port_mappings(vfc_mappings,
                                         Value(frame.npiv_port_mappings))
                  /\ instance' =
                        LET md == instance.system_metadata
                            state_keys == {_sys_fabric_state_key(f) : f \in Range(_fabric_names)}
                        IN  [instance EXCEPT !.system_metadata =
                                [x \in DOMAIN md |->
                                    IF x \in state_keys THEN FS_UNMAPPED ELSE md[x]]]
                  /\ Return(None)
             ELSE /\ Raise
                  /\ UNCHANGED <<instance, vfc_mappings>>

\* lines 140-142: one remove_npiv_port_mappings for all fabrics
disconnect_remove ==
    /\ Step("d_remove")
    /\ UNCHANGED <<instance, wwpn_seed>>
    /\ \E ok \in Outcomes :
          /\ Outcome(ok)
          /\ calls' = Append(calls, Call("remove_npiv_port_mappings", "", "",
                                         Value(frame.npiv_port_mappings), <<>>, ok))
          /\ IF ok
             THEN /\ vfc_mappings' = remove_npiv_port_mappings(vfc_mappings,
                                         Value(frame.npiv_port_mappings))
                  /\ Return(None)
             ELSE /\ Raise
                  /\ UNCHANGED vfc_mappings

\* ------------------------------------------------------- specification
\* the configured fabrics: fabric number k has one physical port on each VIOS
FabricConf(n) ==
    [k \in 1..n |-> <<FabricNames[k],
                      [v \in 1..Len(VIOS_WRAPS) |-> PhysicalPort(k, VIOS_WRAPS[v])]>>]

\* a VM record as the host framework creates it: empty system_metadata
NewInstance == [system_metadata |-> <<>>, task_state |-> "none"]

\* no input of the codec specification
NoCodecInput == [kind |-> "none", value |-> <<>>]

Init ==
    /\ \E n \in 1..MaxFabrics : NPIV_FABRIC_WWPNS = FabricConf(n)
    /\ ports_per_fabric \in 0..MaxPortsPerFabric
    /\ Len(NPIV_FABRIC_WWPNS) * ports_per_fabric <= MaxPorts
    /\ instance = NewInstance
    /\ vfc_mappings = {}
    /\ wwpn_seed = 0
    /\ op = "none"
    /\ pc = "idle"
    /\ frame = EmptyFrame
    /\ status = "none"
    /\ ret = None
    /\ calls = <<>>
    /\ instance0 = NewInstance
    /\ vfc0 = {}
    /\ prev = [op |-> "none", status |-> "none", ret |-> None, calls |-> <<>>, torn |-> FALSE]
    /\ nops = 0
    /\ failures = 0
    /\ SideInit
    /\ codec_in = NoCodecInput

Next ==
    \/ wwpns
    \/ wwpns_read
    \/ _build_wwpns_for_fabric
    \/ wwpns_derive
    \/ _add_npiv_mgmt_mappings
    \/ connect_volume
    \/ _remove_npiv_mgmt_mappings
    \/ connect_add
    \/ disconnect_volume
    \/ disconnect_remove

Spec == Init /\ [][Next]_vars

\* the steps inside a call: once the host framework has called into the driver, the
\* interpreter runs the call on, and every call of the management layer it waits
\* for returns or raises
RunOn ==
    \/ wwpns_read
    \/ _build_wwpns_for_fabric
    \/ wwpns_derive
    \/ _add_npiv_mgmt_mappings
    \/ _remove_npiv_mgmt_mappings
    \/ connect_add
    \/ disconnect_remove

\* the calls of the host framework in one behaviour of the fair specification
MaxLiveOps == 2

\* the host framework calls into the driver, MaxLiveOps times at most
CallIn ==
    /\ nops < MaxLiveOps
    /\ \/ wwpns
       \/ connect_volume
       \/ disconnect_volume

LiveNext == CallIn \/ RunOn

\* the driver with calls that are run on; the host framework need not call again
SpecLive == Init /\ [][LiveNext]_vars /\ WF_vars(RunOn)

\* ------------------------------------------- the port map codec on its own
\* _set_fabric_meta and _get_fabric_meta applied to port maps of up to MaxMappings
\* mappings, and _get_fabric_meta applied to stored strings of up to MaxTokens tokens
CodecFabric == FabricNames[1]
CodecPhysical == {PhysicalPort(1, VIOS_WRAPS[v]) : v \in 1..Len(VIOS_WRAPS)}
CodecVirtual == {VirtualWwpn(n) : n \in 0..2}
CodecMappings ==
    {<<p, join(" ", <<v1, v2>>)>> : p \in CodecPhysical, v1 \in CodecVirtual, v2 \in CodecVirtual}
CodecPortMaps == UNION {[1..n -> CodecMappings] : n \in 0..MaxMappings}
CodecTokens == CodecPhysical \cup {VirtualWwpn(0)}
CodecStrings == {join(",", t) : t \in UNION {[1..n -> CodecTokens] : n \in 0..MaxTokens}}

CodecInit ==
    /\ NPIV_FABRIC_WWPNS = FabricConf(1)
    /\ ports_per_fabric = 0
    /\ \/ /\ \E x \in CodecPortMaps : codec_in = [kind |-> "port_map", value |-> x]
          /\ instance = NewInstance
       \/ \E x \in CodecStrings :
             /\ codec_in = [kind |-> "stored", value |-> x]
             /\ instance = [NewInstance EXCEPT !.system_metadata =
                               Put(<<>>, _sys_meta_fabric_key(CodecFabric), x)]
    /\ vfc_mappings = {}
    /\ wwpn_seed = 0
    /\ op = "none"
    /\ pc = "idle"
    /\ frame = EmptyFrame
    /\ status = "none"
    /\ ret = None
    /\ calls = <<>>
    /\ instance0 = NewInstance
    /\ vfc0 = {}
    /\ prev = [op |-> "none", status |-> "none", ret |-> None, calls |-> <<>>, torn |-> FALSE]
    /\ nops = 0
    /\ failures = 0
    /\ SideInit

codec_set ==
    /\ codec_in.kind = "port_map"
    /\ op = "none"
    /\ instance' = _set_fabric_meta(instance, CodecFabric, codec_in.value)
    /\ op' = "_set_fabric_meta"
    /\ status' = "returned"
    /\ UNCHANGED <<conf, vfc_mappings, wwpn_seed, pc, frame, ret, calls, instance0, vfc0,
                   prev, nops, failures, codec_in, side>>

codec_get ==
    /\ op # "_get_fabric_meta"
    /\ ret' = _get_fabric_meta(instance, CodecFabric)
    /\ op' = "_get_fabric_meta"
    /\ status' = "returned"
    /\ prev' = [op |-> op, status |-> status, ret |-> ret, calls |-> calls, torn |-> prev.torn]
    /\ UNCHANGED <<conf, instance, vfc_mappings, wwpn_seed, pc, frame, calls, instance0,
                   vfc0, nops, failures, codec_in, side>>

CodecNext == codec_set \/ codec_get

SpecCodec == CodecInit /\ [][CodecNext]_vars

\* ------------------------------------------- the fabric state on its own
\* _get_fabric_state applied twice to one fabric of an instance whose metadata holds,
\* per fabric, no state or one of the three states, and a port map or none (a port
\* map is stored only where a state is: wwpns reads the state right after storing it)
StateChoices ==
    {<<None, FALSE>>}
        \cup {<<Some(s), m>> : s \in {FS_UNMAPPED, FS_MGMT_MAPPED, FS_INST_MAPPED},
                                m \in BOOLEAN}

RECURSIVE StateInstance(_, _)
StateInstance(choice, k) ==
    IF k = 0 THEN NewInstance
    ELSE LET inst == StateInstance(choice, k - 1)
             fabric == _fabric_names[k]
             inst1 == IF IsNone(choice[k][1]) THEN inst
                      ELSE _set_fabric_state(inst, fabric, Value(choice[k][1]))
         IN  IF choice[k][2]
             THEN _set_fabric_meta(inst1, fabric,
                      derive_npiv_map(VIOS_WRAPS, _fabric_ports(fabric),
                                      build_wwpn_pair(k - 1)))
             ELSE inst1

StateInit ==
    /\ \E n \in 1..MaxFabrics : NPIV_FABRIC_WWPNS = FabricConf(n)
    /\ ports_per_fabric = 1
    /\ \E choice \in [1..Len(NPIV_FABRIC_WWPNS) -> StateChoices] :
          instance = StateInstance(choice, Len(NPIV_FABRIC_WWPNS))
    /\ \E fabric \in Range(_fabric_names) : codec_in = [kind |-> "fabric", value |-> fabric]
    /\ vfc_mappings = {}
    /\ wwpn_seed = 0
    /\ op = "none"
    /\ pc = "idle"
    /\ frame = EmptyFrame
    /\ status = "none"
    /\ ret = None
    /\ calls = <<>>
    /\ instance0 = NewInstance
    /\ vfc0 = {}
    /\ prev = [op |-> "none", status |-> "none", ret |-> None, calls |-> <<>>, torn |-> FALSE]
    /\ nops = 0
    /\ failures = 0
    /\ SideInit

state_get ==
    /\ codec_in.kind = "fabric"
    /\ nops < 2
    /\ instance' = _get_fabric_state_instance(instance, codec_in.value)
    /\ ret' = Some(_get_fabric_state(instance, codec_in.value))
    /\ op' = "_get_fabric_state"
    /\ status' = "returned"
    /\ prev' = [op |-> op, status |-> status, ret |-> ret, calls |-> calls, torn |-> prev.torn]
    /\ instance0' = instance
    /\ nops' = nops + 1
    /\ UNCHANGED <<conf, vfc_mappings, wwpn_seed, pc, frame, calls, vfc0, failures, codec_in,
                   side>>

StateNext == state_get

SpecState == StateInit /\ [][StateNext]_vars

\* ================================================================ media.py
\* ConfigDrivePowerVM.dlt_cfg_drv_vopt on its own: a volume group with its virtual
\* media repositories, and the files of the virtual I/O server.
MaxRepos == 2
MaxMedia == 2
MaxMediaOps == 2
MediaNames == {"cfg_a", "cfg_b"}

\* what dlt_cfg_drv_vopt and IterableToFileAdapter never touch
driver == <<conf, instance, vfc_mappings, wwpn_seed, instance0, vfc0, prev>>

\* the driver has not been used
DriverInit ==
    /\ NPIV_FABRIC_WWPNS = FabricConf(1)
    /\ ports_per_fabric = 0
    /\ instance = NewInstance
    /\ vfc_mappings = {}
    /\ wwpn_seed = 0
    /\ instance0 = NewInstance
    /\ vfc0 = {}
    /\ prev = [op |-> "none", status |-> "none", ret |-> None, calls |-> <<>>, torn |-> FALSE]

\* the optical media of one repository: lists of distinct names
MediaLists ==
    {s \in UNION {[1..n -> MediaNames] : n \in 0..MaxMedia} :
        \A i, j \in 1..Len(s) : s[i] = s[j] => i = j}

\* vmedia.get_optical_media(): the media objects of repository i; an object is the
\* media of that name in that repository
get_optical_media(repos, i) ==
    [j \in 1..Len(repos[i]) |-> [repo |-> i, media_name |-> repos[i][j]]]

\* vmedia_repo.set_optical_media(optical_media) on the loaded volume group
set_optical_media(repos, i, optical_media) ==
    [repos EXCEPT ![i] = [j \in 1..Len(optical_media) |-> optical_media[j].media_name]]

\* the inner loop of lines 160-164: the first media of the list with the name
first_vopt(optical_media, file_name) ==
    LET hits == {j \in 1..Len(optical_media) : optical_media[j].media_name = file_name}
    IN  IF hits = {} THEN None
        ELSE Some(optical_media[CHOOSE j \in hits : \A k \in hits : j <= k])

\* lines 155-164: the loop over the repositories. The break leaves the inner loop
\* only, so every repository is visited and optical_media is rebound each time.
RECURSIVE find_vopt(_, _, _, _)
find_vopt(repos, file_name, i, found) ==
    IF i > Len(repos) THEN found
    ELSE LET optical_media == get_optical_media(repos, i)
             vopt == first_vopt(optical_media, file_name)
         IN  find_vopt(repos, file_name, i + 1,
                       [vmedia_repo |-> IF IsNone(vopt) THEN found.vmedia_repo ELSE Some(i),
                        optical_media |-> Some(optical_media),
                        vopt_media |-> IF IsNone(vopt) THEN found.vopt_media ELSE vopt])

\* list.remove(x): can it find x
list_has(list, x) == \E j \in 1..Len(list) : list[j] = x

\* list.remove(x): the list without its first element equal to x
list_remove(list, x) ==
    LET j == CHOOSE j \in 1..Len(list) : list[j] = x /\ \A k \in 1..(j - 1) : list[k] # x
    IN  [k \in 1..(Len(list) - 1) |-> IF k < j THEN list[k] ELSE list[k + 1]]

\* a call of the adapter
MediaCall(fn, what, ok) == [fn |-> fn, what |-> what, ok |-> ok]

MediaInit ==
    /\ DriverInit
    /\ \E n \in 1..MaxRepos : vol_grp \in [1..n -> MediaLists]
    /\ files \in SUBSET MediaNames
    /\ iterator = <<>>
    /\ remaining_data = <<>>
    /\ codec_in = NoCodecInput
    /\ op = "none"
    /\ pc = "idle"
    /\ frame = EmptyFrame
    /\ status = "none"
    /\ ret = None
    /\ calls = <<>>
    /\ nops = 0
    /\ failures = 0

\* dlt_cfg_drv_vopt(file_name) is called
dlt_cfg_drv_vopt ==
    /\ pc = "idle"
    /\ nops < MaxMediaOps
    /\ \E file_name \in MediaNames :
          /\ frame' = [file_name |-> file_name, vol_grp |-> <<>>]
          /\ codec_in' = [kind |-> "media", file_name |-> file_name,
                          vol_grp |-> vol_grp, files |-> files]
    /\ op' = "dlt_cfg_drv_vopt"
    /\ pc' = "m_read_vg"
    /\ status' = "running"
    /\ ret' = None
    /\ calls' = <<>>
    /\ nops' = nops + 1
    /\ UNCHANGED <<driver, side, failures>>

\* lines 149-173: read the volume group, look for the media, take it off the list
media_read_vg ==
    /\ pc = "m_read_vg"
    /\ \E ok \in Outcomes :
          /\ Outcome(ok)
          /\ calls' = Append(calls, MediaCall("adapter.read", "VolumeGroup", ok))
          /\ IF ~ok THEN Raise
             ELSE LET found == find_vopt(vol_grp, frame.file_name, 1,
                                         [vmedia_repo |-> None, optical_media |-> None,
                                          vopt_media |-> None])
                  IN  IF IsNone(found.vopt_media) THEN Return(None)
                      ELSE IF ~list_has(Value(found.optical_media), Value(found.vopt_media))
                      THEN Raise
                      ELSE /\ frame' = [frame EXCEPT !.vol_grp =
                                  set_optical_media(vol_grp, Value(found.vmedia_repo),
                                      list_remove(Value(found.optical_media),
                                                  Value(found.vopt_media)))]
                           /\ pc' = "m_update"
                           /\ UNCHANGED <<status, ret>>
    /\ UNCHANGED <<driver, side, op, nops, codec_in>>

\* lines 174-176: adapter.update of the volume group
media_update ==
    /\ pc = "m_update"
    /\ \E ok \in Outcomes :
          /\ Outcome(ok)
          /\ calls' = Append(calls, MediaCall("adapter.update", "VolumeGroup", ok))
          /\ IF ok
             THEN /\ vol_grp' = frame.vol_grp
                  /\ pc' = "m_read_files"
                  /\ UNCHANGED <<status, ret, frame>>
             ELSE Raise /\ UNCHANGED vol_grp
    /\ UNCHANGED <<driver, files, iterator, remaining_data, op, nops, codec_in>>

\* lines 184-195: read the file feed and look for the file
media_read_files ==
    /\ pc = "m_read_files"
    /\ \E ok \in Outcomes :
          /\ Outcome(ok)
          /\ calls' = Append(calls, MediaCall("adapter.read", "File", ok))
          /\ IF ~ok THEN Raise
             ELSE IF frame.file_name \in files
             THEN pc' = "m_delete" /\ UNCHANGED <<status, ret, frame>>
             ELSE Return(None)
    /\ UNCHANGED <<driver, side, op, nops, codec_in>>

\* lines 188-190: adapter.delete of the file
media_delete ==
    /\ pc = "m_delete"
    /\ \E ok \in Outcomes :
          /\ Outcome(ok)
          /\ calls' = Append(calls, MediaCall("adapter.delete", "File", ok))
          /\ IF ok
             THEN Return(None) /\ files' = files \ {frame.file_name}
             ELSE Raise /\ UNCHANGED files
    /\ UNCHANGED <<driver, vol_grp, iterator, remaining_data, op, nops, codec_in>>

MediaNext ==
    \/ dlt_cfg_drv_vopt
    \/ media_read_vg
    \/ media_update
    \/ media_read_files
    \/ media_delete

SpecMedia == MediaInit /\ [][MediaNext]_vars


\* ================================================================ localdisk.py
\* IterableToFileAdapter on its own: an iterable of string chunks read like a file.
MaxChunks == 3
MaxChunkLen == 2
MaxSize == 2
Alphabet ==
    <<"a", "b", "c", "d", "e", "f", "g", "h", "i", "j", "k", "l", "m", "n", "o", "p">>

\* the chunks of the given lengths, cut from the alphabet in order: every
\* character of the stream is different from the ones next to it
RECURSIVE ChunksOf(_, _)
ChunksOf(lens, start) ==
    IF Len(lens) = 0 THEN <<>>
    ELSE <<[k \in 1..Head(lens) |-> Alphabet[((start + k - 1) % Len(Alphabet)) + 1]]>>
            \o ChunksOf(Tail(lens), start + Head(lens))

\* chunk[0:size]
slice_to(chunk, size) == SubSeq(chunk, 1, Min(size, Len(chunk)))

\* a slice that starts one character late
slice_from_late(chunk, size) == SubSeq(chunk, size + 2, Len(chunk))

\* chunk[size:]
slice_from(chunk, size) == SubSeq(chunk, size + 1, Len(chunk))

\* lines 73-78: chunk = self.remaining_data; while not chunk: chunk = self.iterator.next()
\* stop is StopIteration: the iterator had nothing but empty chunks left
RECURSIVE next_chunk(_, _)
next_chunk(chunk, iter) ==
    IF Len(chunk) > 0 THEN [stop |-> FALSE, chunk |-> chunk, iterator |-> iter]
    ELSE IF Len(iter) = 0 THEN [stop |-> TRUE, chunk |-> chunk, iterator |-> iter]
    ELSE next_chunk(Head(iter), Tail(iter))

\* what has been read so far: the values returned up to the first empty one, whether
\* an empty one was returned, whether a read followed it and returned something,
\* and whether a read left part of a chunk behind
StreamInput(chunks) ==
    [kind |-> "stream", chunks |-> chunks, delivered |-> <<>>, eof |-> FALSE,
     again |-> FALSE, late |-> FALSE, split |-> FALSE]

\* lines 68-70: IterableToFileAdapter(iterable)
StreamInit ==
    /\ DriverInit
    /\ \E n \in 0..MaxChunks : \E lens \in [1..n -> 0..MaxChunkLen] :
          /\ iterator = ChunksOf(lens, 0)
          /\ codec_in = StreamInput(ChunksOf(lens, 0))
    /\ remaining_data = <<>>
    /\ vol_grp = <<>>
    /\ files = {}
    /\ op = "none"
    /\ pc = "idle"
    /\ frame = EmptyFrame
    /\ status = "none"
    /\ ret = None
    /\ calls = <<>>
    /\ nops = 0
    /\ failures = 0

\* lines 72-81: read(size)
read ==
    /\ codec_in.kind = "stream"
    /\ \E size \in 1..MaxSize :
          LET next == next_chunk(remaining_data, iterator)
              return_value == IF next.stop THEN <<>> ELSE slice_to(next.chunk, size)
          IN  /\ frame' = [size |-> size]
              /\ iterator' = next.iterator
              /\ remaining_data' = IF next.stop THEN remaining_data
                                   ELSE slice_from(next.chunk, size)
              /\ ret' = Some(return_value)
              /\ codec_in' = [codec_in EXCEPT
                     !.delivered = IF codec_in.eof THEN @ ELSE @ \o return_value,
                     !.eof = @ \/ Len(return_value) = 0,
                     !.again = @ \/ codec_in.eof,
                     !.late = @ \/ (codec_in.eof /\ Len(return_value) > 0),
                     !.split = @ \/ (~next.stop /\ Len(slice_from(next.chunk, size)) > 0)]
    /\ op' = "read"
    /\ status' = "returned"
    /\ UNCHANGED <<driver, vol_grp, files, pc, calls, nops, failures>>

StreamNext == read

SpecStream == StreamInit /\ [][StreamNext]_vars



\* ================================================================ claims
Fabrics == Range(_fabric_names)

\* the fabric state stored for a fabric; no stored state reads as FS_UNMAPPED
StoredState(inst, f) ==
    IF _sys_fabric_state_key(f) \in DOMAIN inst.system_metadata
    THEN inst.system_metadata[_sys_fabric_state_key(f)]
    ELSE FS_UNMAPPED

HasPortMap(inst, f) == _sys_meta_fabric_key(f) \in DOMAIN inst.system_metadata
PortMapOf(inst, f) == Value(_get_fabric_meta(inst, f))

\* the virtual WWPNs of a port map, in its order
VirtualOf(port_map) == Flatten([k \in 1..Len(port_map) |-> split(port_map[k][2], " ")])

CallsOf(fn) == {k \in 1..Len(calls) : calls[k].fn = fn}
FabricCallsOf(fn, f) == {k \in CallsOf(fn) : calls[k].fabric = f}

Ended(name) == pc = "idle" /\ op = name
Returned(name) == Ended(name) /\ status = "returned"

\* the WWPNs built by the management layer during the current call
BuiltNow ==
    LET n == Cardinality({k \in CallsOf("build_wwpn_pair") : calls[k].ok})
    IN  {VirtualWwpn(m) : m \in (2 * (wwpn_seed - n))..(2 * wwpn_seed - 1)}

\* C1: a wwpns() that directly follows a wwpns() that returned also returns, returns
\* the same list of virtual WWPNs, and issues no build_wwpn_pair request.
C1_IdempotentDiscovery ==
    (Ended("wwpns") /\ prev.op = "wwpns" /\ prev.status = "returned")
        => /\ status = "returned"
           /\ ret = prev.ret
           /\ CallsOf("build_wwpn_pair") = {}

\* the first wwpns() built the ports of a new VM, the second returned them
C1_Witness ==
    /\ Returned("wwpns") /\ prev.op = "wwpns" /\ prev.status = "returned"
    /\ nops = 2
    /\ Len(ret) > 0

\* C2: when wwpns() is called with the port map of some fabric missing and returns,
\* it has built ports_per_fabric fresh pairs for every fabric, every fabric has a
\* newly stored port map made of WWPNs built in this call (a port map stored before
\* is overwritten), and the list returned is the WWPNs of the new port maps.
C2_AllOrNothingRebuild ==
    (Returned("wwpns") /\ \E f \in Fabrics : ~HasPortMap(instance0, f))
        => /\ \A f \in Fabrics :
                 /\ Cardinality(FabricCallsOf("build_wwpn_pair", f)) = ports_per_fabric
                 /\ HasPortMap(instance, f)
                 /\ Len(PortMapOf(instance, f)) = ports_per_fabric
                 /\ Range(VirtualOf(PortMapOf(instance, f))) \subseteq BuiltNow
                 /\ (HasPortMap(instance0, f) /\ ports_per_fabric > 0)
                       => instance.system_metadata[_sys_meta_fabric_key(f)]
                              # instance0.system_metadata[_sys_meta_fabric_key(f)]
           /\ ret = Flatten([k \in 1..Len(_fabric_names) |->
                                VirtualOf(PortMapOf(instance, _fabric_names[k]))])
           /\ Range(ret) \subseteq BuiltNow

\* a rebuild of a VM on which one fabric had a port map and another had none
C2_Witness ==
    /\ Returned("wwpns")
    /\ ports_per_fabric > 0
    /\ \E f, g \in Fabrics : HasPortMap(instance0, f) /\ ~HasPortMap(instance0, g)

\* C3 (as claimed): disconnect_volume issues no removal outside a teardown task
\* state, and in a teardown task state exactly one remove_npiv_port_mappings whose
\* argument is the stored port maps of all fabrics, one after the other.
C3_DisconnectGating ==
    Ended("disconnect_volume")
        => IF ~(instance0.task_state \in {"deleting", "spawning"})
           THEN CallsOf("remove_npiv_port_mappings") = {}
           ELSE /\ Cardinality(CallsOf("remove_npiv_port_mappings")) = 1
                /\ \A f \in Fabrics : HasPortMap(instance0, f)
                /\ \A k \in CallsOf("remove_npiv_port_mappings") :
                      calls[k].maps = Flatten([n \in 1..Len(_fabric_names) |->
                                                  PortMapOf(instance0, _fabric_names[n])])

\* C4: wwpns() on a VM with empty metadata that returns has issued ports_per_fabric
\* build_wwpn_pair requests per fabric, returns 2 * ports_per_fabric * F WWPNs, and
\* leaves every fabric mgmt_mapped with a port map of ports_per_fabric triples whose
\* virtual WWPNs are the ones returned for that fabric.
C4_FreshDiscovery ==
    (Returned("wwpns") /\ DOMAIN instance0.system_metadata = {})
        => LET n == ports_per_fabric
               F == Len(_fabric_names)
           IN  /\ Cardinality(CallsOf("build_wwpn_pair")) = n * F
               /\ Len(ret) = 2 * n * F
               /\ Cardinality(Range(ret)) = 2 * n * F
               /\ \A x \in 1..F :
                     LET f == _fabric_names[x]
                     IN  /\ Cardinality(FabricCallsOf("build_wwpn_pair", f)) = n
                         /\ _sys_fabric_state_key(f) \in DOMAIN instance.system_metadata
                         /\ StoredState(instance, f) = FS_MGMT_MAPPED
                         /\ HasPortMap(instance, f)
                         /\ Len(PortMapOf(instance, f)) = n
                         /\ Len(split(instance.system_metadata[_sys_meta_fabric_key(f)], ","))
                               = IF n = 0 THEN 1 ELSE 3 * n
                         /\ \A k \in 1..Len(PortMapOf(instance, f)) :
                               PortMapOf(instance, f)[k][1] \in Range(_fabric_ports(f))
                         /\ VirtualOf(PortMapOf(instance, f))
                               = SubSeq(ret, 2 * n * (x - 1) + 1, 2 * n * x)

\* two fabrics with two ports each discovered on a new VM
C4_Witness ==
    /\ Returned("wwpns") /\ DOMAIN instance0.system_metadata = {}
    /\ ports_per_fabric >= 2
    /\ Len(_fabric_names) >= 2
    /\ Len(ret) = 2 * ports_per_fabric * Len(_fabric_names)

\* C5: in connect_volume, for a fabric that is mgmt_mapped when the call begins, the
\* only calls are at most one removal of its stored port map and at most one add of
\* the same port map to the VM, the add after the removal has succeeded; when
\* connect_volume returns there was exactly one of each, the port map is no longer
\* on the management partition and the fabric is inst_mapped.
C5_ConnectAfterParking ==
    op = "connect_volume"
        => \A f \in Fabrics :
              StoredState(instance0, f) = FS_MGMT_MAPPED
                 => LET R == FabricCallsOf("remove_npiv_port_mappings", f)
                        A == FabricCallsOf("add_npiv_port_mappings", f)
                    IN  /\ Cardinality(R) <= 1
                        /\ Cardinality(A) <= 1
                        /\ \A a \in A : /\ calls[a].lpar = VM_UUID
                                        /\ \E r \in R : r < a /\ calls[r].ok
                        /\ \A k \in R \cup A : /\ HasPortMap(instance0, f)
                                               /\ calls[k].maps = PortMapOf(instance0, f)
                        /\ (pc = "idle" /\ status = "returned")
                              => /\ Cardinality(R) = 1
                                 /\ Cardinality(A) = 1
                                 /\ \A k \in R \cup A : calls[k].ok
                                 /\ StoredState(instance, f) = FS_INST_MAPPED
                                 /\ \A m \in Range(PortMapOf(instance0, f)) :
                                       /\ <<MGMT_UUID, m>> \notin vfc_mappings
                                       /\ <<VM_UUID, m>> \in vfc_mappings

\* connect_volume returned for a VM with a parked fabric
C5_Witness ==
    /\ Returned("connect_volume")
    /\ \E f \in Fabrics : /\ StoredState(instance0, f) = FS_MGMT_MAPPED
                          /\ HasPortMap(instance0, f)
                          /\ Len(PortMapOf(instance0, f)) > 0


\* the mappings of a fabric's physical ports that are on the VM
VmMappingsOf(mappings, f) ==
    {e \in mappings : e[1] = VM_UUID /\ e[2][1] \in Range(_fabric_ports(f))}

\* what connect_volume leaves alone for fabric f
ConnectIsNoOp(f) ==
    /\ FabricCallsOf("remove_npiv_port_mappings", f) = {}
    /\ \A k \in FabricCallsOf("add_npiv_port_mappings", f) : calls[k].lpar # MGMT_UUID
    /\ StoredState(instance, f) = FS_INST_MAPPED
    /\ HasPortMap(instance, f) = HasPortMap(instance0, f)
    /\ HasPortMap(instance, f)
          => instance.system_metadata[_sys_meta_fabric_key(f)]
                 = instance0.system_metadata[_sys_meta_fabric_key(f)]
    /\ VmMappingsOf(vfc_mappings, f) = VmMappingsOf(vfc0, f)

C7_StatePortMapInvariant ==
    pc = "idle"
        => \A f \in Fabrics :
              HasPortMap(instance, f)
                 <=> StoredState(instance, f) \in {FS_MGMT_MAPPED, FS_INST_MAPPED}

\* one step changes the stored state of fabric f only in a legal way
LegalTransition(f) ==
    LET s == StoredState(instance, f)
        t == StoredState(instance', f)
    IN  s # t
           => \/ s = FS_UNMAPPED /\ t = FS_MGMT_MAPPED /\ op = "wwpns"
              \/ s = FS_MGMT_MAPPED /\ t = FS_UNMAPPED /\ op = "connect_volume"
                    /\ pc = "c_remove"
              \/ t = FS_INST_MAPPED /\ op = "connect_volume"
              \/ s = FS_INST_MAPPED /\ t = FS_UNMAPPED /\ op = "disconnect_volume"
                    /\ instance.task_state \in TASK_STATES_FOR_DISCONNECT

\* wwpns then connect_volume on a new VM, both returning: every fabric was unmapped,
\* then mgmt_mapped, and is now inst_mapped
HappyPath ==
    (Returned("connect_volume") /\ nops = 2 /\ prev.op = "wwpns" /\ prev.status = "returned")
        => \A f \in Fabrics :
              /\ StoredState(NewInstance, f) = FS_UNMAPPED
              /\ StoredState(instance0, f) = FS_MGMT_MAPPED
              /\ StoredState(instance, f) = FS_INST_MAPPED

\* C8: every change of a stored fabric state is unmapped -> mgmt_mapped in wwpns,
\* mgmt_mapped -> unmapped in the un-parking step of connect_volume, or a change to
\* inst_mapped in connect_volume (inst_mapped -> unmapped at most in a teardown);
\* wwpns then connect_volume on a new VM go unmapped, mgmt_mapped, inst_mapped.
C8_LegalTransitions ==
    /\ [][\A f \in Fabrics : LegalTransition(f)]_vars
    /\ []HappyPath

\* a new VM after wwpns and connect_volume: every fabric inst_mapped
C8_Witness ==
    /\ Returned("connect_volume") /\ nops = 2 /\ prev.op = "wwpns" /\ prev.status = "returned"
    /\ \A f \in Fabrics : StoredState(instance, f) = FS_INST_MAPPED

\* C9: _get_fabric_meta after _set_fabric_meta of a port map returns that port map.
C9_RoundTrip ==
    (op = "_get_fabric_meta" /\ prev.op = "_set_fabric_meta")
        => ret = Some(codec_in.value)

\* a port map of two mappings stored and read back
C9_Witness ==
    /\ op = "_get_fabric_meta" /\ prev.op = "_set_fabric_meta"
    /\ Len(codec_in.value) >= 2
    /\ Len(Value(ret)) >= 2

\* C10 (as claimed): _get_fabric_meta of a stored string whose number of comma
\* separated tokens is not a multiple of 3 raises.
C10_DecodeError ==
    (/\ op = "_get_fabric_meta"
     /\ codec_in.kind = "stored"
     /\ Len(split(codec_in.value, ",")) % 3 # 0)
        => status = "raised"

\* the position of a fabric in the order the loops process the fabrics
FabricIndex(f) == CHOOSE k \in 1..Len(_fabric_names) : _fabric_names[k] = f

\* C11: in a rebuild of wwpns() the k-th fabric is derived against the virtual I/O
\* servers in the order adapter.read gave them when k is odd and in the reversed
\* order when k is even, and a wwpns() that returned has derived every fabric so.
C11_MultipathAlternation ==
    op = "wwpns"
        => /\ \A k \in CallsOf("derive_npiv_map") :
                 calls[k].vios = IF FabricIndex(calls[k].fabric) % 2 = 1
                                 THEN VIOS_WRAPS
                                 ELSE [i \in 1..Len(VIOS_WRAPS) |->
                                          VIOS_WRAPS[Len(VIOS_WRAPS) + 1 - i]]
           /\ \A f \in Fabrics : Cardinality(FabricCallsOf("derive_npiv_map", f)) <= 1
           /\ (Returned("wwpns") /\ CallsOf("read") # {})
                 => \A f \in Fabrics : Cardinality(FabricCallsOf("derive_npiv_map", f)) = 1

\* two fabrics rebuilt: the first derived against <<V1, V2>>, the second against
\* <<V2, V1>>
C11_Witness ==
    /\ Returned("wwpns")
    /\ Len(_fabric_names) >= 2
    /\ \E k \in FabricCallsOf("derive_npiv_map", _fabric_names[1]) :
          calls[k].vios = <<"V1", "V2">>
    /\ \E k \in FabricCallsOf("derive_npiv_map", _fabric_names[2]) :
          calls[k].vios = <<"V2", "V1">>

\* C12: _get_fabric_state returns the stored state and writes nothing when a state
\* is stored; when none is stored it writes unmapped under the fabric's state key
\* and returns unmapped; it changes no other metadata key; a second call returns
\* what the first returned.
C12_WriteOnRead ==
    op = "_get_fabric_state"
        => LET key == _sys_fabric_state_key(codec_in.value)
               before == instance0.system_metadata
               after == instance.system_metadata
           IN  /\ key \in DOMAIN before => (ret = Some(before[key]) /\ after = before)
               /\ key \notin DOMAIN before
                     => /\ ret = Some(FS_UNMAPPED)
                        /\ key \in DOMAIN after
                        /\ after[key] = FS_UNMAPPED
               /\ DOMAIN after \ {key} = DOMAIN before \ {key}
               /\ \A x \in DOMAIN before \ {key} : after[x] = before[x]
               /\ prev.op = "_get_fabric_state" => ret = prev.ret

\* a first read of a fabric with no stored state, on an instance that holds the
\* state and the port map of another fabric
C12_Witness ==
    /\ op = "_get_fabric_state"
    /\ nops = 1
    /\ _sys_fabric_state_key(codec_in.value) \notin DOMAIN instance0.system_metadata
    /\ _sys_fabric_state_key(codec_in.value) \in DOMAIN instance.system_metadata
    /\ Cardinality(DOMAIN instance0.system_metadata) >= 2

\* C13 (as claimed): disconnect_volume in a teardown task state, on a VM where some
\* fabric is unmapped and has no stored port map, and with no management-layer call
\* failing, returns without raising.
C13_TeardownOfUnmapped ==
    (/\ Ended("disconnect_volume")
     /\ instance0.task_state \in TASK_STATES_FOR_DISCONNECT
     /\ \E f \in Fabrics : ~HasPortMap(instance0, f) /\ StoredState(instance0, f) = FS_UNMAPPED
     /\ \A k \in 1..Len(calls) : calls[k].ok)
        => status = "returned"

\* the management-layer calls of the current call that raised
FailedCalls == {k \in 1..Len(calls) : ~calls[k].ok}

\* the metadata of fabric f is what it was when the current call began
Untouched(f) ==
    \A key \in {_sys_fabric_state_key(f), _sys_meta_fabric_key(f)} :
        /\ (key \in DOMAIN instance.system_metadata) = (key \in DOMAIN instance0.system_metadata)
        /\ key \in DOMAIN instance.system_metadata
              => instance.system_metadata[key] = instance0.system_metadata[key]

\* C14: once a management-layer call has failed in wwpns() or connect_volume(), the
\* call has ended with that failure and the failed call is its last one (no retry);
\* for fabrics after the one being processed there is no call and no metadata
\* write; the fabrics before it hold what the call wrote for them: in wwpns the
\* port map derived and the state mgmt_mapped where the fabric was parked, in
\* connect_volume the state inst_mapped.
C14_FailureAborts ==
    (op \in {"wwpns", "connect_volume"} /\ FailedCalls # {})
        => /\ pc = "idle"
           /\ status = "raised"
           /\ FailedCalls = {Len(calls)}
           /\ LET failed == calls[Len(calls)].fabric
                   kf == IF failed = "" THEN 0 ELSE FabricIndex(failed)
               IN  \A j \in 1..Len(_fabric_names) :
                      LET f == _fabric_names[j]
                      IN  /\ j > kf
                                => /\ \A k \in 1..Len(calls) : calls[k].fabric # f
                                   /\ Untouched(f)
                          /\ (j < kf /\ op = "wwpns")
                                => /\ \E d \in FabricCallsOf("derive_npiv_map", f) :
                                         /\ HasPortMap(instance, f)
                                         /\ instance.system_metadata[_sys_meta_fabric_key(f)]
                                               = join(",", meta_elems(calls[d].maps))
                                   /\ StoredState(instance, f)
                                         = IF \E a \in FabricCallsOf("add_npiv_port_mappings", f) :
                                                 calls[a].ok
                                           THEN FS_MGMT_MAPPED
                                           ELSE StoredState(instance0, f)
                          /\ (j < kf /\ op = "connect_volume")
                                => /\ \E a \in FabricCallsOf("add_npiv_port_mappings", f) :
                                         calls[a].ok /\ calls[a].lpar = VM_UUID
                                   /\ StoredState(instance, f) = FS_INST_MAPPED
                                   /\ HasPortMap(instance, f)
                                   /\ instance.system_metadata[_sys_meta_fabric_key(f)]
                                         = instance0.system_metadata[_sys_meta_fabric_key(f)]

\* wwpns() failed while processing the second fabric, after the first was stored
\* and parked
C14_Witness ==
    /\ Ended("wwpns") /\ status = "raised"
    /\ FailedCalls # {}
    /\ Len(_fabric_names) >= 2
    /\ calls[Len(calls)].fabric = _fabric_names[2]
    /\ ports_per_fabric > 0
    /\ StoredState(instance, _fabric_names[1]) = FS_MGMT_MAPPED
    /\ HasPortMap(instance, _fabric_names[1])

\* the fabrics the call before had completed when a management-layer call failed
\* in its loop: those processed before the fabric of the failed call
PrevCompleted ==
    LET failed == {k \in 1..Len(prev.calls) : ~prev.calls[k].ok}
    IN  IF failed = {} THEN {}
        ELSE LET fabric == prev.calls[Len(prev.calls)].fabric
             IN  IF fabric = "" THEN {}
                 ELSE {_fabric_names[j] : j \in 1..(FabricIndex(fabric) - 1)}

\* C15 (as claimed): when wwpns(), connect_volume() or disconnect_volume() is called
\* again after it failed partway through the fabric loop, the stored port map and
\* state of every fabric completed before the failure stay unchanged, and the retry
\* issues no build_wwpn_pair request and no management-partition add for them.
C15_RetryIdempotent ==
    (/\ op \in {"wwpns", "connect_volume", "disconnect_volume"}
     /\ prev.op = op
     /\ prev.status = "raised")
        => \A f \in PrevCompleted :
              /\ Untouched(f)
              /\ FabricCallsOf("build_wwpn_pair", f) = {}
              /\ \A k \in FabricCallsOf("add_npiv_port_mappings", f) :
                    calls[k].lpar # MGMT_UUID

\* C16 (as claimed): when wwpns() fails because derive_npiv_map fails for a fabric,
\* no virtual port pair has been built, no port map or state has been written for
\* any fabric, and no mapping has been added to the management partition.
C16_ConfigErrorsFirst ==
    (/\ Ended("wwpns")
     /\ status = "raised"
     /\ Len(calls) > 0
     /\ calls[Len(calls)].fn = "derive_npiv_map"
     /\ ~calls[Len(calls)].ok)
        => /\ CallsOf("build_wwpn_pair") = {}
           /\ instance.system_metadata = instance0.system_metadata
           /\ vfc_mappings = vfc0

\* the calls of the current call that park fabric f on the management partition
ParkingCallsOf(f) ==
    {k \in FabricCallsOf("add_npiv_port_mappings", f) : calls[k].lpar = MGMT_UUID}
        \cup FabricCallsOf("get_mgmt_partition", f)

\* C17: _add_npiv_mgmt_mappings (in wwpns) calls the management layer for a fabric
\* only if the fabric is unmapped, and then sets the state mgmt_mapped once the add
\* has returned; for a fabric in another state it makes no call and leaves the
\* state.  _remove_npiv_mgmt_mappings (in connect_volume) issues a removal only if
\* the fabric is mgmt_mapped, and the state after it is unmapped; for a fabric in
\* another state it issues no removal and the state after it is as before.
C17_GuardedNoOps ==
    \A f \in Fabrics :
        LET s0 == StoredState(instance0, f)
        IN  /\ op = "wwpns"
                  => /\ ParkingCallsOf(f) # {} => s0 = FS_UNMAPPED
                     /\ StoredState(instance, f)
                           = IF \E k \in ParkingCallsOf(f) : calls[k].ok
                             THEN FS_MGMT_MAPPED ELSE s0
                     /\ (Returned("wwpns") /\ CallsOf("read") # {} /\ s0 = FS_UNMAPPED)
                           => \E k \in ParkingCallsOf(f) : calls[k].ok
            /\ op = "connect_volume"
                  => /\ FabricCallsOf("remove_npiv_port_mappings", f) # {}
                           => s0 = FS_MGMT_MAPPED
                     /\ (pc = "c_add" /\ _fabric_names[frame.fabric_idx] = f)
                           => /\ StoredState(instance, f)
                                    = IF s0 = FS_MGMT_MAPPED THEN FS_UNMAPPED ELSE s0
                              /\ s0 = FS_MGMT_MAPPED
                                    => \E k \in FabricCallsOf("remove_npiv_port_mappings", f) :
                                          calls[k].ok

\* a rebuild by wwpns() that parked an unmapped fabric and skipped the parking of a
\* fabric that was already mgmt_mapped
C17_Witness ==
    /\ Returned("wwpns")
    /\ \E f, g \in Fabrics :
          /\ StoredState(instance0, f) = FS_MGMT_MAPPED
          /\ FabricCallsOf("derive_npiv_map", f) # {}
          /\ ParkingCallsOf(f) = {}
          /\ StoredState(instance0, g) = FS_UNMAPPED
          /\ \E k \in ParkingCallsOf(g) : calls[k].ok

\* C18: during and after disconnect_volume, in every task state and whether or not
\* the removal is performed, system_metadata holds the same keys with the same
\* values as when the call began; a teardown leaves the fabric states as they were.
C18_DisconnectKeepsMetadata ==
    op = "disconnect_volume"
        => /\ instance.system_metadata = instance0.system_metadata
           /\ \A f \in Fabrics : Untouched(f)

\* a teardown that removed the mappings of a connected VM: the fabrics are still
\* inst_mapped
C18_Witness ==
    /\ Returned("disconnect_volume")
    /\ instance0.task_state \in TASK_STATES_FOR_DISCONNECT
    /\ \E k \in CallsOf("remove_npiv_port_mappings") : calls[k].ok /\ Len(calls[k].maps) > 0
    /\ \A f \in Fabrics : StoredState(instance, f) = FS_INST_MAPPED

StateAdvance(f) ==
    LET s == StoredState(instance, f)
        t == StoredState(instance', f)
    IN  s # t
           => /\ Len(calls') = Len(calls) + 1
              /\ LET c == calls'[Len(calls')]
                 IN  /\ c.ok
                     /\ c.fabric = f
                     /\ HasPortMap(instance', f)
                     /\ c.maps = PortMapOf(instance', f)
                     /\ t = FS_MGMT_MAPPED
                           => c.fn = "add_npiv_port_mappings" /\ c.lpar = MGMT_UUID
                     /\ t = FS_UNMAPPED => c.fn = "remove_npiv_port_mappings"
                     /\ t = FS_INST_MAPPED
                           => c.fn = "add_npiv_port_mappings" /\ c.lpar = VM_UUID

\* a step in which a management-layer call fails leaves every stored state as it was
FailureKeepsState ==
    (Len(calls') = Len(calls) + 1 /\ ~calls'[Len(calls')].ok)
        => \A f \in Fabrics : StoredState(instance', f) = StoredState(instance, f)

\* C20: a stored fabric state becomes mgmt_mapped only with the add of the fabric's
\* port map to the management partition having returned, unmapped only with the
\* removal having returned, inst_mapped only with the add to the VM having
\* returned; when a management-layer call fails every stored state stays what it
\* was before the call.
C20_StateAfterCall ==
    [][(\A f \in Fabrics : StateAdvance(f)) /\ FailureKeepsState]_vars

\* connect_volume un-parked and connected one fabric, then un-parked a second one
\* whose add to the VM failed: the first is inst_mapped, the second unmapped
C20_Witness ==
    /\ Ended("connect_volume") /\ status = "raised"
    /\ \E f, g \in Fabrics :
          /\ StoredState(instance0, f) = FS_MGMT_MAPPED
          /\ StoredState(instance, f) = FS_INST_MAPPED
          /\ StoredState(instance0, g) = FS_MGMT_MAPPED
          /\ StoredState(instance, g) = FS_UNMAPPED
          /\ \E k \in FabricCallsOf("remove_npiv_port_mappings", g) : calls[k].ok
          /\ \E k \in FabricCallsOf("add_npiv_port_mappings", g) : ~calls[k].ok

\* the virtual WWPNs of the port mappings present on the management partition or
\* on the VM
MappedWwpns == UNION {Range(split(e[2][2], " ")) : e \in vfc_mappings}

\* C21 (as claimed): whenever wwpns() returns, every fabric's stored state is
\* mgmt_mapped or inst_mapped and every virtual WWPN returned belongs to a port
\* mapping present on the management partition or on the VM.
C21_ReturnedWwpnsLoggedIn ==
    Returned("wwpns")
        => /\ \A f \in Fabrics : StoredState(instance, f) \in {FS_MGMT_MAPPED, FS_INST_MAPPED}
           /\ Range(ret) \subseteq MappedWwpns

\* a disconnect_volume teardown has removed the mappings of the VM
TornDown ==
    \/ prev.torn
    \/ /\ op = "disconnect_volume"
       /\ \E k \in CallsOf("remove_npiv_port_mappings") : calls[k].ok

\* the mappings of a fabric's physical ports that are on the management partition
MgmtMappingsOf(mappings, f) ==
    {e \in mappings : e[1] = MGMT_UUID /\ e[2][1] \in Range(_fabric_ports(f))}

\* C22 (as claimed): between calls, as long as no disconnect_volume teardown has
\* run, the stored port map of a mgmt_mapped fabric is exactly what is mapped for
\* that fabric on the management partition, and the stored port map of an
\* inst_mapped fabric is exactly what is mapped for that fabric on the VM.
C22_StateMatchesMappings ==
    (pc = "idle" /\ ~TornDown)
        => \A f \in Fabrics :
              /\ StoredState(instance, f) = FS_MGMT_MAPPED
                    => /\ HasPortMap(instance, f)
                       /\ MgmtMappingsOf(vfc_mappings, f)
                             = {<<MGMT_UUID, m>> : m \in Range(PortMapOf(instance, f))}
              /\ StoredState(instance, f) = FS_INST_MAPPED
                    => /\ HasPortMap(instance, f)
                       /\ VmMappingsOf(vfc_mappings, f)
                             = {<<VM_UUID, m>> : m \in Range(PortMapOf(instance, f))}

\* C23 (as claimed): after disconnect_volume has returned in task state deleting, no
\* port mapping of a virtual WWPN built for the VM is left on the management
\* partition or on the VM.
C23_TeardownLeavesNothing ==
    (Returned("disconnect_volume") /\ instance0.task_state = "deleting")
        => \A e \in vfc_mappings :
              \A n \in 0..(2 * wwpn_seed - 1) : VirtualWwpn(n) \notin Range(split(e[2][2], " "))

\* C24: in every state, also inside wwpns and connect_volume, no virtual WWPN of a
\* mapping on the management partition is a virtual WWPN of a mapping on the VM.
C24_SingleOwner ==
    \A e1, e2 \in vfc_mappings :
        (e1[1] = MGMT_UUID /\ e2[1] = VM_UUID)
           => Range(split(e1[2][2], " ")) \cap Range(split(e2[2][2], " ")) = {}

\* inside connect_volume: the ports of the first fabric have moved to the VM, those
\* of the second fabric are still on the management partition
C24_Witness ==
    /\ op = "connect_volume"
    /\ pc = "c_remove"
    /\ frame.fabric_idx = 2
    /\ \E e \in VmMappingsOf(vfc_mappings, _fabric_names[1]) :
          <<MGMT_UUID, e[2]>> \in vfc0
    /\ MgmtMappingsOf(vfc_mappings, _fabric_names[2]) # {}

\* the repositories that hold a media of the name
ReposWith(repos, name) == {i \in 1..Len(repos) : name \in Range(repos[i])}

\* the repositories with the media of the name taken out of repository i
WithoutMedia(repos, i, name) ==
    [r \in 1..Len(repos) |->
        IF r = i THEN SelectSeq(repos[r], LAMBDA m : m # name) ELSE repos[r]]

\* C25 (as claimed): when dlt_cfg_drv_vopt(file_name) ends with no adapter call having
\* failed, and an optical media of that name was in exactly one repository of the
\* volume group, the call has returned, exactly that media is gone from its
\* repository and every other media is in place, one volume-group update was
\* issued, and the file of that name is gone with every other file in place.
C25_DeletesNamedMedia ==
    (/\ Ended("dlt_cfg_drv_vopt")
     /\ FailedCalls = {}
     /\ Cardinality(ReposWith(codec_in.vol_grp, codec_in.file_name)) = 1)
        => /\ status = "returned"
           /\ \E i \in ReposWith(codec_in.vol_grp, codec_in.file_name) :
                 vol_grp = WithoutMedia(codec_in.vol_grp, i, codec_in.file_name)
           /\ Cardinality(CallsOf("adapter.update")) = 1
           /\ files = codec_in.files \ {codec_in.file_name}

\* C26: every read(size) returns at most size characters; the values returned up to
\* the first empty one, put together, are a beginning of the chunks put together in
\* order, and are all of them once an empty value has been returned; every read
\* after an empty value returns the empty string.
C26_StreamPreserved ==
    codec_in.kind = "stream" =>
        LET data == Flatten(codec_in.chunks)
        IN  /\ op = "read" => Len(Value(ret)) <= frame.size
            /\ Len(codec_in.delivered) <= Len(data)
            /\ codec_in.delivered = SubSeq(data, 1, Len(codec_in.delivered))
            /\ codec_in.eof => codec_in.delivered = data
            /\ ~codec_in.late

\* a stream with an empty chunk between two chunks has been read to its end, one
\* read left part of a chunk behind, and a read after the end returned ''
C26_Witness ==
    /\ codec_in.kind = "stream"
    /\ op = "read"
    /\ codec_in.again
    /\ codec_in.split
    /\ ret = Some(<<>>)
    /\ \E i \in 2..(Len(codec_in.chunks) - 1) :
          /\ Len(codec_in.chunks[i]) = 0
          /\ Len(codec_in.chunks[i - 1]) > 0
          /\ Len(codec_in.chunks[i + 1]) > 0

\* the calls of the management layer the current call may have issued: in wwpns the
\* read of the virtual I/O servers and, per fabric, ports_per_fabric build requests,
\* one derive and one parking; in connect_volume one removal and one add per
\* fabric; in disconnect_volume one removal. A build loop that was left for the
\* derive has issued exactly ports_per_fabric requests.
CallBound ==
    LET F == Len(_fabric_names)
    IN  /\ op = "wwpns" => Len(calls) <= 1 + F * (ports_per_fabric + 2)
        /\ op = "connect_volume" => Len(calls) <= 2 * F
        /\ op = "disconnect_volume" => Len(calls) <= 1
        /\ \A f \in Fabrics :
              /\ Cardinality(FabricCallsOf("build_wwpn_pair", f)) <= ports_per_fabric
              /\ FabricCallsOf("derive_npiv_map", f) # {}
                    => Cardinality({k \in FabricCallsOf("build_wwpn_pair", f) : calls[k].ok})
                          = ports_per_fabric

\* C27: when every call of the management layer returns or raises, each wwpns,
\* connect_volume and disconnect_volume that has begun ends, having issued no more
\* calls than the number of fabrics and ports_per_fabric allow, with exactly
\* ports_per_fabric build requests for a fabric whose build loop has finished.
C27_RunToCompletion ==
    /\ []CallBound
    /\ (pc # "idle") ~> (pc = "idle")

\* a wwpns() that has issued every call it can: the read, and for each of two
\* fabrics two build requests, the derive and the parking
C27_Witness ==
    /\ Returned("wwpns")
    /\ Len(_fabric_names) = 2
    /\ ports_per_fabric = 2
    /\ Len(calls) = 1 + Len(_fabric_names) * (ports_per_fabric + 2)
    /\ \A f \in Fabrics : Cardinality(FabricCallsOf("build_wwpn_pair", f)) = 2

====
